---- MODULE Spec2Model ----
(***************************************************************************)
(* Media asset lifecycle (src/routes_media.py), account registration and   *)
(* login (src/routes_auth.py) and the identity tokens (src/auth.py) as     *)
(* state machines over the document store and the blob store.  Every call  *)
(* a handler makes to a store is one atomic step, so requests served by    *)
(* different workers interleave between store calls.  The stores           *)
(* themselves (database, storage, utils modules) are not part of the       *)
(* sources at hand; they follow the collaborator contracts of the          *)
(* specification, sections 4.4 and 6.                                      *)
(***************************************************************************)
EXTENDS Integers, Sequences, FiniteSets, TLC

VARIABLES media, blobs, nextId, nextSuffix, now, req, users, nextUid, clock, areq,
          issued, presented

vars == <<media, blobs, nextId, nextSuffix, now, req, users, nextUid, clock, areq,
          issued, presented>>
mediaVars == <<media, blobs, nextId, nextSuffix, now, req>>
tokenVars == <<issued, presented>>
authVars == <<users, nextUid, clock, areq, issued, presented>>

(* ---------------------------- bounds ----------------------------------- *)
\* asset ids ever generated (uuid4 values in upload_media)
MaxAssets == 1
\* unique suffixes ever handed out by the blob store
MaxPuts == 2
\* readings of the clock (datetime.utcnow()), each later than the one before
MaxTime == 2

\* account ids ever generated (uuid4 values in register)
MaxAccounts == 2
\* minutes of wall-clock time that pass
MaxClock == 1
\* minutes that pass while a token is held: beyond the default lifetime
MaxInstant == 31

\* the requests in flight at the same time, the oldest in the first slot
Slots == <<"s1", "s2">>
Reqs == {Slots[i] : i \in DOMAIN Slots}
AssetIds == 1..MaxAssets

(* ------------------------ optional values ------------------------------ *)
\* Python's Optional[T]: None is the empty tuple, a value x is <<x>>
None == <<>>
Some(x) == <<x>>

(* ------------------------ request inputs ------------------------------- *)
\* the accounts whose tokens media requests carry
Users == {"A", "B"}
\* file.filename of an upload, as a sequence of characters
FileNames == {<<"d", "/", "a">>}
\* file.content_type of an upload
ContentTypes == {"image/png", "video/mp4", "text/plain"}
\* the configured maximum upload size
MaxFileSize == 1
FileSizes == {MaxFileSize, MaxFileSize + 1}
\* the tags form field of an upload: absent, empty, or some text
TagPayloads == {None, Some(""), Some("nope"), Some("{}"), Some("[1]")}
\* the description form field of an upload
UploadDescriptions == {Some("d1")}
\* a JSON scalar
JStr(s) == [kind |-> "string", lit |-> s]
JNum(s) == [kind |-> "number", lit |-> s]
\* the query parameter of a search, the mediaType parameter of a listing
Queries == {"d1"}
MediaTypeFilters == {Some("image")}
\* the defaults of the parameters page and pageSize
DefaultPage == 1
DefaultPageSize == 20
\* MediaUpdate.description and MediaUpdate.tags of an update request
UpdateDescriptions == {None, Some("")}
UpdateTags == {None, Some(<<>>)}

(* --------------------------- strings ----------------------------------- *)
\* str.replace(old, new): every non-overlapping occurrence, left to right
RECURSIVE Replace(_, _, _)
Replace(s, old, new) ==
  IF Len(old) = 0
  THEN IF Len(s) = 0 THEN new ELSE new \o <<Head(s)>> \o Replace(Tail(s), old, new)
  ELSE IF Len(s) < Len(old) THEN s
  ELSE IF SubSeq(s, 1, Len(old)) = old
       THEN new \o Replace(SubSeq(s, Len(old) + 1, Len(s)), old, new)
       ELSE <<Head(s)>> \o Replace(Tail(s), old, new)

\* s.split("/")[-1]: what follows the last slash
LastSegment(s) ==
  LET slashes == {i \in 1..Len(s) : s[i] = "/"}
  IN  IF slashes = {} THEN s
      ELSE LET last == CHOOSE i \in slashes : \A j \in slashes : j <= i
           IN  SubSeq(s, last + 1, Len(s))

\* f"thumb_{name}"
ThumbName(name) == <<"thumb_">> \o name

(* ----------------------- json.loads(tags) ------------------------------ *)
\* the decoded value, or the JSONDecodeError
JsonLoads(text) ==
  CASE text = "[\"t\"]" -> [ok |-> TRUE, isList |-> TRUE, value |-> <<JStr("t")>>]
    [] text = "[1]"     -> [ok |-> TRUE, isList |-> TRUE, value |-> <<JNum("1")>>]
    [] text = "{}"      -> [ok |-> TRUE, isList |-> FALSE, value |-> <<>>]
    [] OTHER            -> [ok |-> FALSE, isList |-> FALSE, value |-> <<>>]

(* ------------------- collaborators (specification 6) ------------------- *)
\* utils.validate_file_type: image, video, or UnsupportedType
ValidateFileType(ct) ==
  CASE ct = "image/png" -> "image"
    [] ct = "video/mp4" -> "video"
    [] OTHER            -> "unsupported"

\* utils.validate_file_size: TooLarge above the configured maximum
FileSizeOk(size) == size <= MaxFileSize

\* storage.upload_file: a key scoped to the owner plus a unique suffix
BlobName(user_id, suffix, filename) ==
  <<user_id, "/", ToString(suffix), "_">> \o filename

\* the publicly resolvable location of a stored object
BlobUrl(key) == <<"https://blob/">> \o key

\* database.get_media_by_id: the record with that id, or None
GetMediaById(media_id, user_id) ==
  IF media_id \in DOMAIN media THEN Some(media[media_id]) ELSE None

\* the records of a set of ids, in the order of their ids
RECURSIVE RecordsOf(_)
RecordsOf(ids) ==
  IF ids = {} THEN <<>>
  ELSE LET first == CHOOSE i \in ids : \A j \in ids : i <= j
       IN  <<media[first]>> \o RecordsOf(ids \ {first})

\* one page of a result, and the size of the whole result
Paginate(records, page, page_size) ==
  LET first == (page - 1) * page_size + 1
      last == IF page * page_size < Len(records) THEN page * page_size ELSE Len(records)
  IN  <<SubSeq(records, first, last), Len(records)>>

\* a record matches a query by its file name, its description or a tag
Matches(rec, query) ==
  \/ \E i \in 1..Len(rec.originalFileName) : rec.originalFileName[i] = query
  \/ rec.description = Some(query)
  \/ rec.tags # None /\ \E i \in 1..Len(rec.tags[1]) : rec.tags[1][i].lit = query

\* database.search_media: the matching records of one owner
SearchMediaOf(user_id, query, page, page_size) ==
  Paginate(RecordsOf({id \in DOMAIN media :
                        media[id].userId = user_id /\ Matches(media[id], query)}),
           page, page_size)

\* database.get_user_media: the records of one owner, of one kind if asked
GetUserMedia(user_id, page, page_size, media_type) ==
  Paginate(RecordsOf({id \in DOMAIN media :
                        /\ media[id].userId = user_id
                        /\ media_type # None => media[id].mediaType = media_type[1]}),
           page, page_size)

\* database.update_media: the stored record with the changed fields replaced
MergeFields(rec, changes) ==
  [f \in DOMAIN rec |-> IF f \in DOMAIN changes THEN changes[f] ELSE rec[f]]

(* ----------------------------- tokens ---------------------------------- *)
\* settings.jwt_access_token_expire_minutes
AccessTokenExpireMinutes == 30

\* settings.jwt_secret_key
SecretKey == "secret"

\* auth.py lines 27-40: the claims plus the expiration instant, signed; an
\* expiration_offset that is None or falsy (timedelta(0)) gives the default
GenerateJwtToken(data, expiration_offset, instant) ==
  LET expire == IF expiration_offset # None /\ expiration_offset[1] # 0
                THEN instant + expiration_offset[1]
                ELSE instant + AccessTokenExpireMinutes
  IN  [claims |-> [exp |-> expire] @@ data, key |-> SecretKey]

\* the response of both failures of extract_authenticated_id
Unauthorized ==
  [status |-> 401, detail |-> "Could not validate credentials", payload |-> None]

\* auth.py lines 43-55: the claims of a token that is signed with the
\* configured key and has not expired; JWTError becomes 401
ParseJwtPayload(token, instant) ==
  IF token.key # SecretKey THEN Unauthorized
  ELSE IF "exp" \in DOMAIN token.claims /\ token.claims.exp < instant THEN Unauthorized
  ELSE [status |-> 0, detail |-> "", payload |-> Some(token.claims)]

\* auth.py lines 58-73: the subject of a valid token, or 401
ExtractAuthenticatedId(token, instant) ==
  LET parsed == ParseJwtPayload(token, instant)
  IN  IF parsed.status # 0
      THEN [status |-> parsed.status, detail |-> parsed.detail, user_id |-> None]
      ELSE LET payload == parsed.payload[1]
               user_id == IF "sub" \in DOMAIN payload THEN Some(payload.sub) ELSE None
           IN  IF user_id = None
               THEN [status |-> Unauthorized.status, detail |-> Unauthorized.detail,
                     user_id |-> None]
               ELSE [status |-> 0, detail |-> "", user_id |-> user_id]

\* GetCurrentUserId that reads the subject without verifying the token
GetCurrentUserId_TrustsClaims(credentials) ==
  IF "sub" \in DOMAIN credentials.claims
  THEN [status |-> 0, detail |-> "", user_id |-> Some(credentials.claims.sub)]
  ELSE [status |-> Unauthorized.status, detail |-> Unauthorized.detail, user_id |-> None]

\* auth.py lines 93-96: the dependency of every media handler
GetCurrentUserId(credentials) == ExtractAuthenticatedId(credentials, clock)

\* the token of an account, as register and login issue it
AccessToken(user_id) == GenerateJwtToken([sub |-> user_id, email |-> "e1"], None, clock)

\* the bearer credentials of a media request: the token of an account, or a
\* token that names account A and is signed with another key
BearerTokens ==
  {AccessToken(u) : u \in Users} \cup {[AccessToken("A") EXCEPT !.key = "other"]}

(* --------------------------- requests ---------------------------------- *)
\* a request in flight: where its handler stands (pc), its live local
\* variables (loc), the store calls it has issued, and its response once
\* it is done
IdleReq ==
  [pc |-> "idle", op |-> "none", credentials |-> None, user_id |-> "-", media_id |-> 0,
   loc |-> <<>>, status |-> 0, detail |-> "", body |-> None,
   calls |-> <<>>, warned |-> 0]

\* one call to a store, as the request issued it: the result is "ok", or
\* "unavailable" (the store fails), or the exception the store raises
Call(fn, arg, result) == [fn |-> fn, arg |-> arg, result |-> result]

\* the calls of a request, one more issued
Issued(q, fn, arg, result) == [q EXCEPT !.calls = Append(@, Call(fn, arg, result))]

\* the result of a call that the store answers (ok) or fails to answer
Answer(ok) == IF ok THEN "ok" ELSE "unavailable"

\* the dependency has raised: the handler is not entered
Unauthenticated(q, op, credentials, auth) ==
  [q EXCEPT !.pc = "done", !.op = op, !.credentials = Some(credentials),
            !.status = auth.status, !.detail = auth.detail]

\* the request as the handler finds it, with the subject of the token as user_id
Authenticated(q, op, credentials, auth) ==
  [q EXCEPT !.op = op, !.credentials = Some(credentials), !.user_id = auth.user_id[1]]

\* requests that are inside upload_media and have not stored their record yet
UploadsInFlight == {r \in Reqs : req[r].pc \in {"up_primary", "up_thumb", "up_meta"}}

\* the requests in flight once the request in slot r has left: the younger
\* ones move up, so that the busy slots stay the first ones
Leaves(slots, r, idle) ==
  LET rest == [w \in Reqs |-> IF w = r THEN idle ELSE slots[w]]
      busy == {i \in DOMAIN Slots : rest[Slots[i]].pc # "idle"}
      nth(k) == CHOOSE i \in busy : Cardinality({j \in busy : j < i}) = k - 1
  IN  [w \in Reqs |->
        LET k == CHOOSE i \in DOMAIN Slots : Slots[i] = w
        IN  IF k <= Cardinality(busy) THEN rest[Slots[nth(k)]] ELSE idle]

\* a response is sent before any request takes its next step
NoneDone == \A r \in Reqs : req[r].pc # "done"

\* an arriving request takes the first free slot
Accepts(r) ==
  /\ NoneDone
  /\ \E i \in DOMAIN Slots :
       /\ Slots[i] = r
       /\ req[r].pc = "idle"
       /\ \A j \in 1..(i - 1) : req[Slots[j]].pc # "idle"

(* ------------------------- upload_media -------------------------------- *)
\* lines 35-45: the tags form field decoded, or the exception raised
ParseTags(tags) ==
  IF tags = None \/ tags[1] = ""
  THEN [raised |-> "none", label_collection |-> None]
  ELSE LET decoded == JsonLoads(tags[1])
       IN  IF ~decoded.ok
           THEN [raised |-> "HTTPException", label_collection |-> None]
           ELSE IF ~decoded.isList
           THEN [raised |-> "ValueError", label_collection |-> None]
           ELSE [raised |-> "none", label_collection |-> Some(decoded.value)]

\* UploadValidate without the call of validate_file_size
UploadValidate_NoSize(ct, size, tags) ==
  LET parsed == ParseTags(tags)
  IN  IF ValidateFileType(ct) = "unsupported"
      THEN [status |-> 400, detail |-> "UnsupportedType"]
      ELSE IF parsed.raised = "HTTPException"
      THEN [status |-> 400, detail |-> "BadTagFormat"]
      ELSE IF parsed.raised = "ValueError"
      THEN [status |-> 500, detail |-> "Failed to upload media"]
      ELSE [status |-> 0, detail |-> ""]

\* lines 31-48 and 92-99: type, size and tags are validated before any store
\* call; an HTTPException passes through, any other exception becomes 500
UploadValidate(ct, size, tags) ==
  LET parsed == ParseTags(tags)
  IN  IF ValidateFileType(ct) = "unsupported"
      THEN [status |-> 400, detail |-> "UnsupportedType"]
      ELSE IF ~FileSizeOk(size)
      THEN [status |-> 400, detail |-> "TooLarge"]
      ELSE IF parsed.raised = "HTTPException"
      THEN [status |-> 400, detail |-> "BadTagFormat"]
      ELSE IF parsed.raised = "ValueError"
      THEN [status |-> 500, detail |-> "Failed to upload media"]
      ELSE [status |-> 0, detail |-> ""]

\* what upload_media has read of its request when validation ends: the
\* content type, then the size, then the tags
UploadInputsRead(verdict, ct, size, tags) ==
  IF verdict.detail = "UnsupportedType" THEN [content_type |-> ct]
  ELSE IF verdict.detail = "TooLarge" THEN [content_type |-> ct, content_size |-> size]
  ELSE [content_type |-> ct, content_size |-> size, tags |-> tags]

\* lines 22-48: a request arrives and is validated
UploadStart(r) ==
  /\ Accepts(r)
  /\ nextId + Cardinality(UploadsInFlight) <= MaxAssets
  /\ nextSuffix + 2 * Cardinality(UploadsInFlight) + 1 <= MaxPuts
  /\ now + Cardinality(UploadsInFlight) < MaxTime
  /\ \E credentials \in BearerTokens :
       LET auth == GetCurrentUserId(credentials)
       IN  IF auth.status # 0
           THEN req' = [req EXCEPT ![r] = Unauthenticated(req[r], "upload", credentials, auth)]
           ELSE \E filename \in FileNames, ct \in ContentTypes, size \in FileSizes,
                   description \in UploadDescriptions, tags \in TagPayloads :
                  LET verdict == UploadValidate(ct, size, tags)
                      q == [Authenticated(req[r], "upload", credentials, auth) EXCEPT
                              !.loc = UploadInputsRead(verdict, ct, size, tags)]
                  IN  req' = [req EXCEPT ![r] =
                        IF verdict.status # 0
                        THEN [q EXCEPT !.pc = "done", !.status = verdict.status,
                                       !.detail = verdict.detail]
                        ELSE [q EXCEPT !.pc = "up_primary",
                                       !.loc = [filename |-> filename,
                                                asset_category |-> ValidateFileType(ct),
                                                content_size |-> size, content_type |-> ct,
                                                label_collection |->
                                                  ParseTags(tags).label_collection,
                                                description |-> description,
                                                storage_identifier |-> <<>>,
                                                storage_location |-> <<>>,
                                                preview_location |-> None]]]
  /\ UNCHANGED <<media, blobs, nextId, nextSuffix, now>>

\* lines 50-52: the primary bytes go to the blob store
UploadPrimary(r) ==
  /\ NoneDone
  /\ req[r].pc = "up_primary"
  /\ LET q == req[r]
         key == BlobName(q.user_id, nextSuffix, q.loc.filename)
     IN  \E ok \in BOOLEAN :
           IF ok
           THEN /\ blobs' = blobs \cup {key}
                /\ nextSuffix' = nextSuffix + 1
                /\ req' = [req EXCEPT ![r] =
                     [Issued(q, "blob.upload_file", key, "ok") EXCEPT
                        !.pc = IF q.loc.asset_category = "image" THEN "up_thumb" ELSE "up_meta",
                        !.loc.storage_identifier = key,
                        !.loc.storage_location = BlobUrl(key)]]
           ELSE /\ req' = [req EXCEPT ![r] =
                     [Issued(q, "blob.upload_file", key, "unavailable") EXCEPT
                        !.pc = "done", !.status = 500, !.detail = "Failed to upload media"]]
                /\ UNCHANGED <<blobs, nextSuffix>>
  /\ UNCHANGED <<media, nextId, now>>

\* UploadThumbnail with a failure to store the preview ending the upload
UploadThumbnail_Fatal(r) ==
  /\ NoneDone
  /\ req[r].pc = "up_thumb"
  /\ LET q == req[r]
         key == BlobName(q.user_id, nextSuffix, ThumbName(q.loc.filename))
     IN  \/ /\ req' = [req EXCEPT ![r].pc = "up_meta"]
            /\ UNCHANGED <<blobs, nextSuffix>>
         \/ /\ blobs' = blobs \cup {key}
            /\ nextSuffix' = nextSuffix + 1
            /\ req' = [req EXCEPT ![r] =
                 [Issued(q, "blob.upload_file", key, "ok") EXCEPT
                    !.pc = "up_meta", !.loc.preview_location = Some(BlobUrl(key))]]
         \/ /\ req' = [req EXCEPT ![r] =
                 [Issued(q, "blob.upload_file", key, "unavailable") EXCEPT
                    !.pc = "done", !.status = 500, !.detail = "Failed to upload media"]]
            /\ UNCHANGED <<blobs, nextSuffix>>
  /\ UNCHANGED <<media, nextId, now>>

\* lines 54-68: the thumbnail of an image, best effort
UploadThumbnail(r) ==
  /\ NoneDone
  /\ req[r].pc = "up_thumb"
  /\ LET q == req[r]
         key == BlobName(q.user_id, nextSuffix, ThumbName(q.loc.filename))
     IN  \/ \* generate_thumbnail gave no preview data
            /\ req' = [req EXCEPT ![r].pc = "up_meta"]
            /\ UNCHANGED <<blobs, nextSuffix>>
         \/ \* the preview is stored
            /\ blobs' = blobs \cup {key}
            /\ nextSuffix' = nextSuffix + 1
            /\ req' = [req EXCEPT ![r] =
                 [Issued(q, "blob.upload_file", key, "ok") EXCEPT
                    !.pc = "up_meta", !.loc.preview_location = Some(BlobUrl(key))]]
         \/ \* storing the preview fails: logged, the upload goes on
            /\ req' = [req EXCEPT ![r] =
                 [Issued(q, "blob.upload_file", key, "unavailable") EXCEPT
                    !.pc = "up_meta", !.warned = @ + 1]]
            /\ UNCHANGED <<blobs, nextSuffix>>
  /\ UNCHANGED <<media, nextId, now>>

\* lines 70-86: the metadata record of the upload
AssetDocument(q, asset_id, instant) ==
  [id |-> asset_id,
   userId |-> q.user_id,
   fileName |-> q.loc.storage_identifier,
   originalFileName |-> q.loc.filename,
   mediaType |-> q.loc.asset_category,
   fileSize |-> q.loc.content_size,
   mimeType |-> q.loc.content_type,
   blobUrl |-> q.loc.storage_location,
   thumbnailUrl |-> q.loc.preview_location,
   description |-> q.loc.description,
   tags |-> q.loc.label_collection,
   uploadedAt |-> instant,
   updatedAt |-> instant]

\* UploadMeta with the stored objects deleted again when the record is refused
UploadMeta_Compensates(r) ==
  /\ NoneDone
  /\ req[r].pc = "up_meta"
  /\ LET q == req[r]
         doc == AssetDocument(q, nextId, now)
     IN  \E ok \in BOOLEAN :
           IF ok
           THEN /\ media' = (nextId :> doc) @@ media
                /\ req' = [req EXCEPT ![r] =
                     [Issued(q, "db.create_media", nextId, "ok") EXCEPT
                        !.pc = "done", !.status = 201, !.body = Some(doc),
                        !.media_id = nextId]]
                /\ UNCHANGED blobs
           ELSE /\ req' = [req EXCEPT ![r] =
                     [Issued(q, "db.create_media", nextId, "unavailable") EXCEPT
                        !.pc = "done", !.status = 500, !.detail = "Failed to upload media"]]
                /\ blobs' = blobs \ {q.calls[i].arg : i \in 1..Len(q.calls)}
                /\ UNCHANGED media
  /\ nextId' = nextId + 1
  /\ now' = now + 1
  /\ UNCHANGED nextSuffix

\* lines 70-99: the record goes to the document store and is returned
UploadMeta(r) ==
  /\ NoneDone
  /\ req[r].pc = "up_meta"
  /\ LET q == req[r]
         doc == AssetDocument(q, nextId, now)
     IN  \E ok \in BOOLEAN :
           IF ok
           THEN /\ media' = (nextId :> doc) @@ media
                /\ req' = [req EXCEPT ![r] =
                     [Issued(q, "db.create_media", nextId, "ok") EXCEPT
                        !.pc = "done", !.status = 201, !.body = Some(doc),
                        !.media_id = nextId]]
           ELSE /\ req' = [req EXCEPT ![r] =
                     [Issued(q, "db.create_media", nextId, "unavailable") EXCEPT
                        !.pc = "done", !.status = 500, !.detail = "Failed to upload media"]]
                /\ UNCHANGED media
  /\ nextId' = nextId + 1
  /\ now' = now + 1
  /\ UNCHANGED <<blobs, nextSuffix>>

(* ------------------- search_media, get_media_list ---------------------- *)
\* lines 119-121 and 148-150: the response of a search or a listing
MediaListResponse(result, page, pageSize) ==
  [items |-> result[1], total |-> result[2], page |-> page, pageSize |-> pageSize]

\* lines 103-128: the whole handler, one read of the document store
SearchMedia(r) ==
  /\ Accepts(r)
  /\ \E credentials \in BearerTokens :
       LET auth == GetCurrentUserId(credentials)
       IN  IF auth.status # 0
           THEN req' = [req EXCEPT ![r] = Unauthenticated(req[r], "search", credentials, auth)]
           ELSE \E query \in Queries, ok \in BOOLEAN :
                  LET user_id == auth.user_id[1]
                      q == Issued(Authenticated(req[r], "search", credentials, auth),
                                  "db.search_media", user_id, Answer(ok))
                      result == SearchMediaOf(user_id, query, DefaultPage, DefaultPageSize)
                  IN  req' = [req EXCEPT ![r] =
                        IF ~ok
                        THEN [q EXCEPT !.pc = "done", !.status = 500,
                                       !.detail = "Failed to search media"]
                        ELSE [q EXCEPT !.pc = "done", !.status = 200,
                                       !.body = Some(MediaListResponse(
                                                  result, DefaultPage, DefaultPageSize))]]
  /\ UNCHANGED <<media, blobs, nextId, nextSuffix, now>>

\* lines 132-157: the whole handler, one read of the document store
GetMediaList(r) ==
  /\ Accepts(r)
  /\ \E credentials \in BearerTokens :
       LET auth == GetCurrentUserId(credentials)
       IN  IF auth.status # 0
           THEN req' = [req EXCEPT ![r] = Unauthenticated(req[r], "list", credentials, auth)]
           ELSE \E mediaType \in MediaTypeFilters, ok \in BOOLEAN :
                  LET user_id == auth.user_id[1]
                      q == Issued(Authenticated(req[r], "list", credentials, auth),
                                  "db.get_user_media", user_id, Answer(ok))
                      result == GetUserMedia(user_id, DefaultPage, DefaultPageSize, mediaType)
                  IN  req' = [req EXCEPT ![r] =
                        IF ~ok
                        THEN [q EXCEPT !.pc = "done", !.status = 500,
                                       !.detail = "Failed to retrieve media list"]
                        ELSE [q EXCEPT !.pc = "done", !.status = 200,
                                       !.body = Some(MediaListResponse(
                                                  result, DefaultPage, DefaultPageSize))]]
  /\ UNCHANGED <<media, blobs, nextId, nextSuffix, now>>

(* ------------------------ get_media_by_id ------------------------------ *)
\* GetCheck with the ownership mismatch reported as a missing record
GetCheck_HidesForeign(asset_record, user_id) ==
  IF asset_record = None THEN 404
  ELSE IF asset_record[1].userId # user_id THEN 404
  ELSE 0

\* lines 171-180: 404 for no record, 403 for a record of another account
GetCheck(asset_record, user_id) ==
  IF asset_record = None THEN 404
  ELSE IF asset_record[1].userId # user_id THEN 403
  ELSE 0

\* lines 161-191: the whole handler, one read of the document store
GetMedia(r) ==
  /\ Accepts(r)
  /\ \E credentials \in BearerTokens :
       LET auth == GetCurrentUserId(credentials)
       IN  IF auth.status # 0
           THEN req' = [req EXCEPT ![r] = Unauthenticated(req[r], "get", credentials, auth)]
           ELSE \E media_id \in AssetIds, ok \in BOOLEAN :
                  LET user_id == auth.user_id[1]
                      q == Issued([Authenticated(req[r], "get", credentials, auth) EXCEPT
                                     !.media_id = media_id],
                                  "db.get_media_by_id", media_id, Answer(ok))
                      asset_record == GetMediaById(media_id, user_id)
                      denied == GetCheck(asset_record, user_id)
                  IN  req' = [req EXCEPT ![r] =
                        IF ~ok
                        THEN [q EXCEPT !.pc = "done", !.status = 500,
                                       !.detail = "Failed to retrieve media"]
                        ELSE IF denied # 0
                        THEN [q EXCEPT !.pc = "done", !.status = denied]
                        ELSE [q EXCEPT !.pc = "done", !.status = 200,
                                       !.body = asset_record]]
  /\ UNCHANGED <<media, blobs, nextId, nextSuffix, now>>

(* --------------------- update_media_metadata --------------------------- *)
\* lines 206-215: 404 for no record, 403 for a record of another account
UpdateCheck(asset_record, user_id) ==
  IF asset_record = None THEN 404
  ELSE IF asset_record[1].userId # user_id THEN 403
  ELSE 0

\* PropertyChanges with tags written whether or not the request supplies them
PropertyChanges_AlwaysTags(description, tags, instant) ==
  [updatedAt |-> instant, tags |-> tags]
    @@ (IF description # None THEN [description |-> description] ELSE <<>>)

\* PropertyChanges with the stored size overwritten as well
PropertyChanges_ResetsSize(description, tags, instant) ==
  [updatedAt |-> instant, fileSize |-> 0]
    @@ (IF description # None THEN [description |-> description] ELSE <<>>)
    @@ (IF tags # None THEN [tags |-> tags] ELSE <<>>)

\* lines 217-223: updatedAt, and the fields the request supplies
PropertyChanges(description, tags, instant) ==
  [updatedAt |-> instant]
    @@ (IF description # None THEN [description |-> description] ELSE <<>>)
    @@ (IF tags # None THEN [tags |-> tags] ELSE <<>>)

\* lines 195-223: the record is read, checked, and the changes are collected
UpdateStart(r) ==
  /\ Accepts(r)
  /\ now + Cardinality(UploadsInFlight) < MaxTime
  /\ \E credentials \in BearerTokens :
       LET auth == GetCurrentUserId(credentials)
       IN  IF auth.status # 0
           THEN req' = [req EXCEPT ![r] = Unauthenticated(req[r], "update", credentials, auth)]
           ELSE \E media_id \in AssetIds, description \in UpdateDescriptions,
                   tags \in UpdateTags, ok \in BOOLEAN :
                  LET user_id == auth.user_id[1]
                      q == Issued([Authenticated(req[r], "update", credentials, auth) EXCEPT
                                     !.media_id = media_id],
                                  "db.get_media_by_id", media_id, Answer(ok))
                      asset_record == GetMediaById(media_id, user_id)
                      denied == UpdateCheck(asset_record, user_id)
                  IN  req' = [req EXCEPT ![r] =
                        IF ~ok
                        THEN [q EXCEPT !.pc = "done", !.status = 500,
                                       !.detail = "Failed to update media"]
                        ELSE IF denied # 0
                        THEN [q EXCEPT !.pc = "done", !.status = denied]
                        ELSE [q EXCEPT !.pc = "upd_write",
                                       !.loc = [description |-> description, tags |-> tags,
                                                property_changes |->
                                                  PropertyChanges(description, tags, now)]]]
  /\ now' = IF req'[r].pc = "upd_write" THEN now + 1 ELSE now
  /\ UNCHANGED <<media, blobs, nextId, nextSuffix>>

\* UpdateWrite with a store that writes the changes under an id it does not hold
UpdateWrite_Upserts(r) ==
  /\ NoneDone
  /\ req[r].pc = "upd_write"
  /\ LET q == req[r]
         present == q.media_id \in DOMAIN media /\ media[q.media_id].userId = q.user_id
     IN  \E ok \in BOOLEAN :
           IF ~ok
           THEN /\ req' = [req EXCEPT ![r] =
                     [Issued(q, "db.update_media", q.media_id, "unavailable") EXCEPT
                        !.pc = "done", !.status = 500, !.detail = "Failed to update media"]]
                /\ UNCHANGED media
           ELSE LET revised_asset == IF present
                                     THEN MergeFields(media[q.media_id], q.loc.property_changes)
                                     ELSE q.loc.property_changes
                IN  /\ media' = (q.media_id :> revised_asset) @@ media
                    /\ req' = [req EXCEPT ![r] =
                         [Issued(q, "db.update_media", q.media_id, "ok") EXCEPT
                            !.pc = "done", !.status = 200, !.body = Some(revised_asset)]]
  /\ UNCHANGED <<blobs, nextId, nextSuffix, now>>

\* lines 225-240: the changes go to the document store; ValueError becomes 404
UpdateWrite(r) ==
  /\ NoneDone
  /\ req[r].pc = "upd_write"
  /\ LET q == req[r]
         present == q.media_id \in DOMAIN media /\ media[q.media_id].userId = q.user_id
         revised_asset == MergeFields(media[q.media_id], q.loc.property_changes)
     IN  \E ok \in BOOLEAN :
           IF ~ok
           THEN /\ req' = [req EXCEPT ![r] =
                     [Issued(q, "db.update_media", q.media_id, "unavailable") EXCEPT
                        !.pc = "done", !.status = 500, !.detail = "Failed to update media"]]
                /\ UNCHANGED media
           ELSE IF ~present
           THEN /\ req' = [req EXCEPT ![r] =
                     [Issued(q, "db.update_media", q.media_id, "ValueError") EXCEPT
                        !.pc = "done", !.status = 404, !.detail = "ValueError"]]
                /\ UNCHANGED media
           ELSE /\ media' = [media EXCEPT ![q.media_id] = revised_asset]
                /\ req' = [req EXCEPT ![r] =
                     [Issued(q, "db.update_media", q.media_id, "ok") EXCEPT
                        !.pc = "done", !.status = 200, !.body = Some(revised_asset)]]
  /\ UNCHANGED <<blobs, nextId, nextSuffix, now>>

(* --------------------------- delete_media ------------------------------ *)
\* DeleteCheck without the comparison of the owner
DeleteCheck_NoOwner(asset_record, user_id) ==
  IF asset_record = None THEN 404 ELSE 0

\* lines 254-263: 404 for no record, 403 for a record of another account
DeleteCheck(asset_record, user_id) ==
  IF asset_record = None THEN 404
  ELSE IF asset_record[1].userId # user_id THEN 403
  ELSE 0

\* line 267: asset_record.get("thumbnailUrl") is neither None nor empty
HasThumbnail(rec) == rec.thumbnailUrl # None /\ Len(rec.thumbnailUrl[1]) > 0

\* lines 269-272: the key under which delete_media looks for the thumbnail
PreviewIdentifier(rec) ==
  Replace(rec.fileName,
          LastSegment(rec.originalFileName),
          ThumbName(LastSegment(rec.originalFileName)))

\* the fields of asset_record that delete_media reads after its checks
DeleteLocals(rec) ==
  [fileName |-> rec.fileName, originalFileName |-> rec.originalFileName,
   thumbnailUrl |-> rec.thumbnailUrl]

\* lines 244-263: the record is read and checked
DeleteStart(r) ==
  /\ Accepts(r)
  /\ \E credentials \in BearerTokens :
       LET auth == GetCurrentUserId(credentials)
       IN  IF auth.status # 0
           THEN req' = [req EXCEPT ![r] = Unauthenticated(req[r], "delete", credentials, auth)]
           ELSE \E media_id \in AssetIds, ok \in BOOLEAN :
                  LET user_id == auth.user_id[1]
                      q == Issued([Authenticated(req[r], "delete", credentials, auth) EXCEPT
                                     !.media_id = media_id],
                                  "db.get_media_by_id", media_id, Answer(ok))
                      asset_record == GetMediaById(media_id, user_id)
                      denied == DeleteCheck(asset_record, user_id)
                  IN  req' = [req EXCEPT ![r] =
                        IF ~ok
                        THEN [q EXCEPT !.pc = "done", !.status = 500,
                                       !.detail = "Failed to delete media"]
                        ELSE IF denied # 0
                        THEN [q EXCEPT !.pc = "done", !.status = denied]
                        ELSE [q EXCEPT !.pc = "del_primary",
                                       !.loc = [asset_record |->
                                                  DeleteLocals(asset_record[1])]]]
  /\ UNCHANGED <<media, blobs, nextId, nextSuffix, now>>

\* line 265 (and 283-288): the primary object is deleted; a failure ends the request
DeletePrimary(r) ==
  /\ NoneDone
  /\ req[r].pc = "del_primary"
  /\ LET q == req[r]
         rec == q.loc.asset_record
     IN  \E ok \in BOOLEAN :
           IF ok
           THEN /\ blobs' = blobs \ {rec.fileName}
                /\ req' = [req EXCEPT ![r] =
                     [Issued(q, "blob.delete_file", rec.fileName, "ok") EXCEPT
                        !.pc = IF HasThumbnail(rec) THEN "del_thumb" ELSE "del_meta"]]
           ELSE /\ req' = [req EXCEPT ![r] =
                     [Issued(q, "blob.delete_file", rec.fileName, "unavailable") EXCEPT
                        !.pc = "done", !.status = 500, !.detail = "Failed to delete media"]]
                /\ UNCHANGED blobs
  /\ UNCHANGED <<media, nextId, nextSuffix, now>>

\* lines 267-275: the thumbnail object is deleted; a failure is logged
DeleteThumbnail(r) ==
  /\ NoneDone
  /\ req[r].pc = "del_thumb"
  /\ LET q == req[r]
         preview_identifier == PreviewIdentifier(q.loc.asset_record)
     IN  \E ok \in BOOLEAN :
           IF ok
           THEN /\ blobs' = blobs \ {preview_identifier}
                /\ req' = [req EXCEPT ![r] =
                     [Issued(q, "blob.delete_file", preview_identifier, "ok") EXCEPT
                        !.pc = "del_meta"]]
           ELSE /\ req' = [req EXCEPT ![r] =
                     [Issued(q, "blob.delete_file", preview_identifier, "unavailable") EXCEPT
                        !.pc = "del_meta", !.warned = @ + 1]]
                /\ UNCHANGED blobs
  /\ UNCHANGED <<media, nextId, nextSuffix, now>>

\* lines 277-288: the metadata record is deleted
DeleteMeta(r) ==
  /\ NoneDone
  /\ req[r].pc = "del_meta"
  /\ LET q == req[r]
         mine == q.media_id \in DOMAIN media /\ media[q.media_id].userId = q.user_id
     IN  \E ok \in BOOLEAN :
           IF ok
           THEN /\ media' = IF mine
                            THEN [i \in DOMAIN media \ {q.media_id} |-> media[i]]
                            ELSE media
                /\ req' = [req EXCEPT ![r] =
                     [Issued(q, "db.delete_media", q.media_id, "ok") EXCEPT
                        !.pc = "done", !.status = 204]]
           ELSE /\ req' = [req EXCEPT ![r] =
                     [Issued(q, "db.delete_media", q.media_id, "unavailable") EXCEPT
                        !.pc = "done", !.status = 500, !.detail = "Failed to delete media"]]
                /\ UNCHANGED media
  /\ UNCHANGED <<blobs, nextId, nextSuffix, now>>

(* ------------------------- environment --------------------------------- *)
\* the response has been sent; the request leaves
Finish(r) ==
  /\ req[r].pc = "done"
  /\ req' = Leaves(req, r, IdleReq)
  /\ UNCHANGED <<media, blobs, nextId, nextSuffix, now>>

(* ------------------------------ auth ----------------------------------- *)
\* UserCreate of a register request
Usernames == {"n1"}
Emails == {"e1", "e2"}
\* a password, as a sequence of characters
Passwords == {<<"p", "1">>, <<"p", "2">>}
\* the salt bcrypt draws for a digest
Salts == {"s1", "s2"}
IdleAuth ==
  [pc |-> "idle", op |-> "none", email |-> "-", password |-> <<>>, loc |-> <<>>,
   status |-> 0, detail |-> "", body |-> None, calls |-> <<>>]

AuthNoneDone == \A r \in Reqs : areq[r].pc # "done"

\* an arriving request takes the first free slot
AuthAccepts(r) ==
  /\ AuthNoneDone
  /\ \E i \in DOMAIN Slots :
       /\ Slots[i] = r
       /\ areq[r].pc = "idle"
       /\ \A j \in 1..(i - 1) : areq[Slots[j]].pc # "idle"

\* auth.py lines 22-24: a salted digest of the password
ComputeDigest(password, salt) == <<"$2b$", salt>> \o password

\* ValidateCredential that accepts every password
ValidateCredential_AnyPassword(raw_credential, encrypted_digest) == TRUE

\* auth.py lines 17-19: the digest is that of the password under its own salt
ValidateCredential(raw_credential, encrypted_digest) ==
  /\ Len(encrypted_digest) >= 2
  /\ encrypted_digest = ComputeDigest(raw_credential, encrypted_digest[2])

\* database.get_user_by_email: the account with that email, or None
GetUserByEmail(email) ==
  IF \E u \in users : u.email = email
  THEN Some(CHOOSE u \in users : u.email = email)
  ELSE None

\* UserResponse with the stored digest among its fields
UserResponse_WithDigest(account) ==
  [id |-> account.id, username |-> account.username, email |-> account.email,
   createdAt |-> account.created_at, hashed_password |-> account.hashed_password]

\* routes_auth.py lines 53-58 and 103-108: the public view of an account
UserResponse(account) ==
  [id |-> account.id, username |-> account.username, email |-> account.email,
   createdAt |-> account.created_at]

\* RegisterError without the handler of ValueError
RegisterError_NoValueError(exception) ==
  [status |-> 500, detail |-> "Failed to register user"]

\* routes_auth.py lines 62-74: the exception of create_user as a response
RegisterError(exception) ==
  IF exception = "ValueError"
  THEN [status |-> 400, detail |-> "ValueError"]
  ELSE [status |-> 500, detail |-> "Failed to register user"]

\* routes_auth.py lines 28-44: the email is looked up; the account record is built
RegisterStart(r) ==
  /\ AuthAccepts(r)
  /\ nextUid <= MaxAccounts
  /\ \E username \in Usernames, email \in Emails, password \in Passwords,
        salt \in Salts, ok \in BOOLEAN :
       LET q == Issued([areq[r] EXCEPT !.op = "register", !.email = email,
                                       !.password = password],
                       "db.get_user_by_email", email, Answer(ok))
           prior_account == GetUserByEmail(email)
       IN  IF ~ok
           THEN /\ areq' = [areq EXCEPT ![r] =
                     [q EXCEPT !.pc = "done",
                               !.status = RegisterError("Exception").status,
                               !.detail = RegisterError("Exception").detail]]
                /\ UNCHANGED nextUid
           ELSE IF prior_account # None
           THEN /\ areq' = [areq EXCEPT ![r] =
                     [q EXCEPT !.pc = "done", !.status = 400,
                               !.detail = "User with this email already exists"]]
                /\ UNCHANGED nextUid
           ELSE /\ areq' = [areq EXCEPT ![r] =
                     [q EXCEPT !.pc = "reg_create",
                               !.loc = [account_record |->
                                          [id |-> nextUid, username |-> username,
                                           email |-> email,
                                           hashed_password |-> ComputeDigest(password, salt),
                                           created_at |-> clock]]]]
                /\ nextUid' = nextUid + 1
  /\ UNCHANGED <<users, clock>>

\* database.create_user: fails if the email is already present
CreateUserRaises(account_record) ==
  IF \E u \in users : u.email = account_record.email THEN "ValueError" ELSE "none"

\* routes_auth.py lines 46-74: the account is stored, the token is issued
RegisterCreate(r) ==
  /\ AuthNoneDone
  /\ areq[r].pc = "reg_create"
  /\ LET q == areq[r]
         account_record == q.loc.account_record
         raised == CreateUserRaises(account_record)
     IN  \E ok \in BOOLEAN :
           IF ~ok
           THEN /\ areq' = [areq EXCEPT ![r] =
                     [Issued(q, "db.create_user", account_record.email, "unavailable") EXCEPT
                        !.pc = "done",
                        !.status = RegisterError("Exception").status,
                        !.detail = RegisterError("Exception").detail]]
                /\ UNCHANGED users
           ELSE IF raised # "none"
           THEN /\ areq' = [areq EXCEPT ![r] =
                     [Issued(q, "db.create_user", account_record.email, raised) EXCEPT
                        !.pc = "done",
                        !.status = RegisterError(raised).status,
                        !.detail = RegisterError(raised).detail]]
                /\ UNCHANGED users
           ELSE /\ users' = users \cup {account_record}
                /\ areq' = [areq EXCEPT ![r] =
                     [Issued(q, "db.create_user", account_record.email, "ok") EXCEPT
                        !.pc = "done", !.status = 200,
                        !.body = Some([token |->
                                         GenerateJwtToken([sub |-> account_record.id,
                                                           email |-> account_record.email],
                                                          None, clock),
                                       user |-> UserResponse(account_record)])]]
  /\ UNCHANGED <<nextUid, clock>>

(* ------------------------------ login ---------------------------------- *)
\* LoginCheck with an answer of its own for an email that is not registered
LoginCheck_NamesCause(account_entity, password) ==
  IF account_entity = None
  THEN [status |-> 401, detail |-> "User not found"]
  ELSE IF ~ValidateCredential(password, account_entity[1].hashed_password)
  THEN [status |-> 401, detail |-> "Invalid email or password"]
  ELSE [status |-> 0, detail |-> ""]

\* routes_auth.py lines 85-97: no account, or a password that does not verify
LoginCheck(account_entity, password) ==
  IF account_entity = None
  THEN [status |-> 401, detail |-> "Invalid email or password"]
  ELSE IF ~ValidateCredential(password, account_entity[1].hashed_password)
  THEN [status |-> 401, detail |-> "Invalid email or password"]
  ELSE [status |-> 0, detail |-> ""]

\* routes_auth.py lines 78-120: the whole handler, one read of the account store
Login(r) ==
  /\ AuthAccepts(r)
  /\ \E email \in Emails, password \in Passwords, ok \in BOOLEAN :
       LET q == Issued([areq[r] EXCEPT !.op = "login", !.email = email,
                                       !.password = password],
                       "db.get_user_by_email", email, Answer(ok))
           account_entity == GetUserByEmail(email)
           denied == LoginCheck(account_entity, password)
       IN  areq' = [areq EXCEPT ![r] =
             IF ~ok
             THEN [q EXCEPT !.pc = "done", !.status = 500, !.detail = "Failed to login"]
             ELSE IF denied.status # 0
             THEN [q EXCEPT !.pc = "done", !.status = denied.status,
                            !.detail = denied.detail]
             ELSE [q EXCEPT !.pc = "done", !.status = 200,
                            !.body = Some([token |->
                                             GenerateJwtToken(
                                               [sub |-> account_entity[1].id,
                                                email |-> account_entity[1].email],
                                               None, clock),
                                           user |-> UserResponse(account_entity[1])])]]
  /\ UNCHANGED <<users, nextUid, clock>>

\* the response has been sent; the request leaves
AuthFinish(r) ==
  /\ areq[r].pc = "done"
  /\ areq' = Leaves(areq, r, IdleAuth)
  /\ UNCHANGED <<users, nextUid, clock>>

(* ------------------------ tokens in use -------------------------------- *)
\* the data argument of generate_jwt_token: with a subject, and without
TokenData == {[sub |-> "A", email |-> "e1"], [email |-> "e1"]}
\* the expiration_offset argument, in minutes
ExpirationOffsets == {None, Some(0), Some(2)}

\* the bearer credentials a client can present once it holds a token: the
\* token, its claims signed with another key, and text that is no token
Credentials(token) ==
  {token, [token EXCEPT !.key = "other"], [claims |-> <<>>, key |-> ""]}

\* auth.py lines 27-40: a token is issued
IssueToken ==
  /\ issued = None
  /\ \E data \in TokenData, expiration_offset \in ExpirationOffsets :
       issued' = Some([token |-> GenerateJwtToken(data, expiration_offset, clock),
                       expiration_offset |-> expiration_offset,
                       at |-> clock])
  /\ presented' = None
  /\ UNCHANGED <<users, nextUid, clock, areq>>

\* auth.py lines 58-73: a request presents a credential
Authenticate ==
  /\ issued # None
  /\ \E token \in Credentials(issued[1].token) :
       presented' = Some([token |-> token, at |-> clock,
                          parsed |-> ParseJwtPayload(token, clock),
                          outcome |-> ExtractAuthenticatedId(token, clock)])
  /\ UNCHANGED <<users, nextUid, clock, areq, issued>>

\* a minute passes while the token is held
TokenTick ==
  /\ clock < MaxInstant
  /\ clock' = clock + 1
  /\ presented' = None
  /\ UNCHANGED <<users, nextUid, areq, issued>>

\* a minute passes
ClockTick ==
  /\ AuthNoneDone
  /\ clock < MaxClock
  /\ clock' = clock + 1
  /\ UNCHANGED <<users, nextUid, areq>>

MediaInit ==
  /\ media = <<>>
  /\ blobs = {}
  /\ nextId = 1
  /\ nextSuffix = 1
  /\ now = 0
  /\ req = [r \in Reqs |-> IdleReq]

AuthInit ==
  /\ users = {}
  /\ nextUid = 1
  /\ clock = 0
  /\ areq = [r \in Reqs |-> IdleAuth]
  /\ issued = None
  /\ presented = None

Init == MediaInit /\ AuthInit

Next ==
  \/ \E r \in Reqs : UploadStart(r) /\ UNCHANGED authVars
  \/ \E r \in Reqs : UploadPrimary(r) /\ UNCHANGED authVars
  \/ \E r \in Reqs : UploadThumbnail(r) /\ UNCHANGED authVars
  \/ \E r \in Reqs : UploadMeta(r) /\ UNCHANGED authVars
  \/ \E r \in Reqs : SearchMedia(r) /\ UNCHANGED authVars
  \/ \E r \in Reqs : GetMediaList(r) /\ UNCHANGED authVars
  \/ \E r \in Reqs : GetMedia(r) /\ UNCHANGED authVars
  \/ \E r \in Reqs : UpdateStart(r) /\ UNCHANGED authVars
  \/ \E r \in Reqs : UpdateWrite(r) /\ UNCHANGED authVars
  \/ \E r \in Reqs : DeleteStart(r) /\ UNCHANGED authVars
  \/ \E r \in Reqs : DeletePrimary(r) /\ UNCHANGED authVars
  \/ \E r \in Reqs : DeleteThumbnail(r) /\ UNCHANGED authVars
  \/ \E r \in Reqs : DeleteMeta(r) /\ UNCHANGED authVars
  \/ \E r \in Reqs : Finish(r) /\ UNCHANGED authVars

\* the media handlers over the document store and the blob store
Spec == Init /\ [][Next]_vars

AuthNext ==
  \/ \E r \in Reqs : RegisterStart(r) /\ UNCHANGED <<mediaVars, tokenVars>>
  \/ \E r \in Reqs : RegisterCreate(r) /\ UNCHANGED <<mediaVars, tokenVars>>
  \/ \E r \in Reqs : Login(r) /\ UNCHANGED <<mediaVars, tokenVars>>
  \/ \E r \in Reqs : AuthFinish(r) /\ UNCHANGED <<mediaVars, tokenVars>>
  \/ ClockTick /\ UNCHANGED <<mediaVars, tokenVars>>

\* the auth handlers over the account store
SpecAuth == Init /\ [][AuthNext]_vars

TokenNext ==
  \/ IssueToken /\ UNCHANGED mediaVars
  \/ Authenticate /\ UNCHANGED mediaVars
  \/ TokenTick /\ UNCHANGED mediaVars

\* a token from its issue to beyond its expiration
SpecToken == Init /\ [][TokenNext]_vars


(* =========================== properties ================================ *)
\* a finished request of one of the handlers that look a record up first
Looked(r) ==
  /\ req[r].pc = "done"
  /\ req[r].op \in {"get", "update", "delete"}
  /\ Len(req[r].calls) >= 1
  /\ req[r].calls[1].result = "ok"

\* the record a request asks for exists and belongs to another account
Foreign(q) ==
  /\ q.media_id \in DOMAIN media
  /\ media[q.media_id].userId # q.user_id

\* C1: get, update and delete of an existing asset of another account answer
\* 403 Forbidden, and 404 NotFound is answered only when no asset has that id
C1_ForbiddenNotNotFound ==
  \A r \in Reqs :
    Looked(r) =>
      /\ Foreign(req[r]) => req[r].status = 403
      /\ req[r].status = 404 => req[r].media_id \notin DOMAIN media

C1_Witness ==
  \E r \in Reqs :
    Looked(r) /\ req[r].op = "get" /\ Foreign(req[r]) /\ req[r].status = 403

\* C2: no step of a get, update or delete request for an asset of another
\* account changes the asset store or the blob store, or returns the record
C2_ForeignRequestsChangeNothing ==
  [][\A r \in Reqs :
       ( /\ req'[r] # req[r]
         /\ req'[r].pc # "idle"
         /\ req'[r].op \in {"get", "update", "delete"}
         /\ Foreign(req'[r]) )
       => /\ media' = media
          /\ blobs' = blobs
          /\ req'[r].body = None]_vars

C2_Witness ==
  \E r \in Reqs :
    Looked(r) /\ req[r].op = "delete" /\ Foreign(req[r])
      /\ req[r].status = 403 /\ Len(req[r].calls) = 1

\* C3: an upload of an unsupported content type or above the maximum size
\* ends with the validation error and issues no call to either store
C3_InvalidUploadWritesNothing ==
  \A r \in Reqs :
    (req[r].pc = "done" /\ req[r].op = "upload" /\ req[r].status # 401) =>
      LET unsupported == ValidateFileType(req[r].loc.content_type) = "unsupported"
          oversized == /\ "content_size" \in DOMAIN req[r].loc
                       /\ req[r].loc.content_size > MaxFileSize
      IN  (unsupported \/ oversized) =>
            /\ req[r].status = 400
            /\ req[r].detail = IF unsupported THEN "UnsupportedType" ELSE "TooLarge"
            /\ req[r].calls = <<>>
            /\ req[r].body = None

C3_Witness ==
  \E r \in Reqs :
    /\ req[r].pc = "done" /\ req[r].op = "upload" /\ req[r].status # 401
    /\ ValidateFileType(req[r].loc.content_type) # "unsupported"
    /\ req[r].loc.content_size > MaxFileSize
    /\ req[r].detail = "TooLarge"


\* a finished upload whose type and size passed validation
ValidFile(r) ==
  /\ req[r].pc = "done" /\ req[r].op = "upload" /\ req[r].status # 401
  /\ ValidateFileType(req[r].loc.content_type) # "unsupported"
  /\ "content_size" \in DOMAIN req[r].loc
  /\ req[r].loc.content_size <= MaxFileSize

\* every element of a decoded array is a string
AllStrings(list) == \A i \in 1..Len(list) : list[i].kind = "string"

\* the tags of a finished upload were supplied and are no array of strings
MalformedTags(q) ==
  IF "tags" \in DOMAIN q.loc
  THEN /\ q.loc.tags # None
       /\ q.loc.tags[1] # ""
       /\ LET decoded == JsonLoads(q.loc.tags[1])
          IN  ~(decoded.ok /\ decoded.isList /\ AllStrings(decoded.value))
  ELSE /\ q.loc.label_collection # None
       /\ ~AllStrings(q.loc.label_collection[1])

\* C4: an upload whose tags are supplied and do not decode as an array of
\* strings ends with the client error BadTagFormat before any store call
C4_MalformedTagsRejected ==
  \A r \in Reqs :
    (ValidFile(r) /\ MalformedTags(req[r])) =>
      /\ req[r].status = 400
      /\ req[r].detail = "BadTagFormat"
      /\ req[r].calls = <<>>

\* C4, its two failing cases apart: tags that are JSON but no array end with
\* an internal error instead of a client error
C4_NonArrayIsClientError ==
  \A r \in Reqs :
    (ValidFile(r) /\ "tags" \in DOMAIN req[r].loc /\ MalformedTags(req[r])) =>
      req[r].status = 400

\* C4: an array with an element that is no string is rejected before any write
C4_NonStringElementsRejected ==
  \A r \in Reqs :
    (ValidFile(r) /\ "label_collection" \in DOMAIN req[r].loc /\ MalformedTags(req[r])) =>
      req[r].calls = <<>>

\* C5: no two accounts share an email, and a register request for an email
\* that another account holds ends with the duplicate-email client error and
\* without an account of its own
OtherAccountHolds(q) ==
  \E u \in users :
    /\ u.email = q.email
    /\ (q.status = 200 => u.id # q.body[1].user.id)

C5_EmailUnique ==
  /\ \A u1, u2 \in users : u1.email = u2.email => u1 = u2
  /\ \A r \in Reqs :
       ( /\ areq[r].pc = "done" /\ areq[r].op = "register"
         /\ \A i \in 1..Len(areq[r].calls) : areq[r].calls[i].result # "unavailable"
         /\ OtherAccountHolds(areq[r]) )
       => /\ areq[r].status = 400
          /\ areq[r].body = None

\* the second of two interleaved registrations of one email is refused by the store
C5_Witness ==
  \E r \in Reqs :
    /\ areq[r].pc = "done" /\ areq[r].op = "register"
    /\ Len(areq[r].calls) = 2
    /\ areq[r].calls[2].result = "ValueError"
    /\ areq[r].status = 400
    /\ \E u \in users : u.email = areq[r].email

\* the key of the stored object behind a location
KeyOfUrl(url) == Tail(url)

\* a finished delete that passed the checks of existence and ownership
Deleting(r) ==
  /\ req[r].pc = "done" /\ req[r].op = "delete"
  /\ Len(req[r].calls) >= 2

\* the calls of a request to one function of a store
CallsTo(q, fn) == {i \in 1..Len(q.calls) : q.calls[i].fn = fn}

\* C6: after a successful delete neither the primary object nor the thumbnail
\* object of the asset remains in the blob store, and the record is absent
C6_DeleteReclaimsObjects ==
  \A r \in Reqs :
    (Deleting(r) /\ req[r].status = 204) =>
      LET rec == req[r].loc.asset_record
      IN  /\ rec.fileName \notin blobs
          /\ HasThumbnail(rec) => KeyOfUrl(rec.thumbnailUrl[1]) \notin blobs
          /\ req[r].media_id \notin DOMAIN media

\* C7: a successful delete issues one blob deletion for the primary object,
\* one more for the thumbnail object if there is a thumbnail, and one
\* metadata deletion
C7_DeleteCalls ==
  \A r \in Reqs :
    (Deleting(r) /\ req[r].status = 204) =>
      LET q == req[r]
          rec == q.loc.asset_record
          targets == {q.calls[i].arg : i \in CallsTo(q, "blob.delete_file")}
      IN  /\ Cardinality(CallsTo(q, "db.delete_media")) = 1
          /\ IF HasThumbnail(rec)
             THEN /\ Cardinality(CallsTo(q, "blob.delete_file")) = 2
                  /\ targets = {rec.fileName, KeyOfUrl(rec.thumbnailUrl[1])}
             ELSE /\ Cardinality(CallsTo(q, "blob.delete_file")) = 1
                  /\ targets = {rec.fileName}

\* C7, the part that the handler keeps: the number of calls of a successful delete
C7_DeleteCallCounts ==
  \A r \in Reqs :
    (Deleting(r) /\ req[r].status = 204) =>
      LET q == req[r]
      IN  /\ Cardinality(CallsTo(q, "db.delete_media")) = 1
          /\ Cardinality(CallsTo(q, "blob.delete_file")) =
               IF HasThumbnail(q.loc.asset_record) THEN 2 ELSE 1

\* C8: a delete in which a blob deletion fails, of the primary object or of
\* the thumbnail object, still deletes the record and succeeds
C8_BlobFailureDoesNotAbort ==
  \A r \in Reqs :
    ( /\ Deleting(r)
      /\ \E i \in CallsTo(req[r], "blob.delete_file") : req[r].calls[i].result # "ok"
      /\ \A i \in CallsTo(req[r], "db.delete_media") : req[r].calls[i].result = "ok" )
    => /\ req[r].status = 204
       /\ req[r].media_id \notin DOMAIN media

\* C8, for the thumbnail alone: its failed deletion is logged and the delete
\* goes on to the record
C8_ThumbnailFailureDoesNotAbort ==
  \A r \in Reqs :
    ( /\ Deleting(r)
      /\ Len(req[r].calls) >= 3
      /\ req[r].calls[3].fn = "blob.delete_file"
      /\ req[r].calls[3].result # "ok" )
    => /\ req[r].warned = 1
       /\ Cardinality(CallsTo(req[r], "db.delete_media")) = 1

\* the step in which update_media_metadata writes to the document store
UpdateWrites(r) ==
  /\ req[r].pc = "upd_write"
  /\ req'[r].pc = "done"
  /\ req'[r].status = 200

\* the fields of a record other than those in a set
SameExcept(old, new, fields) ==
  /\ DOMAIN new = DOMAIN old
  /\ \A f \in DOMAIN old \ fields : new[f] = old[f]

\* C9: update writes the supplied description and tags, leaves the one that is
\* not supplied as it is, and refreshes updatedAt
C9_UpdateOnlySupplied ==
  [][\A r \in Reqs :
       UpdateWrites(r) =>
         LET old == media[req[r].media_id]
             new == media'[req[r].media_id]
             description == req[r].loc.description
             tags == req[r].loc.tags
         IN  /\ new.description = IF description = None THEN old.description ELSE description
             /\ new.tags = IF tags = None THEN old.tags ELSE tags
             /\ new.updatedAt # old.updatedAt
             /\ new.updatedAt > new.uploadedAt
             /\ SameExcept(old, new, {"description", "tags", "updatedAt"})
             /\ req'[r].body = Some(new)]_vars

\* an update with a description and without tags has been answered
C9_Witness ==
  \E r \in Reqs :
    /\ req[r].pc = "done" /\ req[r].op = "update" /\ req[r].status = 200
    /\ req[r].loc.description # None
    /\ req[r].loc.tags = None
    /\ req[r].body[1].tags # None

\* C10: as long as a record exists nothing but description, tags and updatedAt
\* changes in it, and only the write of an update request changes it at all
C10_ImmutableFields ==
  [][\A id \in DOMAIN media \cap DOMAIN media' :
       /\ SameExcept(media[id], media'[id], {"description", "tags", "updatedAt"})
       /\ media'[id] # media[id] =>
            \E r \in Reqs : UpdateWrites(r) /\ req[r].media_id = id]_vars

\* a record that an update has changed
C10_Witness ==
  \E id \in DOMAIN media :
    /\ media[id].updatedAt # media[id].uploadedAt
    /\ media[id].description = Some("")

\* a finished upload of an image whose primary object was stored and whose
\* record the document store did not refuse
ImageStored(r) ==
  /\ ValidFile(r)
  /\ ValidateFileType(req[r].loc.content_type) = "image"
  /\ Len(req[r].calls) >= 1
  /\ req[r].calls[1].result = "ok"
  /\ \A i \in CallsTo(req[r], "db.create_media") : req[r].calls[i].result = "ok"

\* the calls of a finished upload that stored a thumbnail
ThumbnailPuts(q) ==
  {i \in 2..Len(q.calls) : q.calls[i].fn = "blob.upload_file" /\ q.calls[i].result = "ok"}

\* C11: an image upload succeeds with mediaType image whether the thumbnail is
\* derived and stored or not; thumbnailUrl is the location of the stored
\* thumbnail if there is one and absent otherwise, and no record of a video
\* has one
C11_ThumbnailBestEffort ==
  /\ \A r \in Reqs :
       ImageStored(r) =>
         LET q == req[r]
         IN  /\ q.status = 201
             /\ q.body[1].mediaType = "image"
             /\ q.body[1].thumbnailUrl =
                  IF ThumbnailPuts(q) = {} THEN None
                  ELSE Some(BlobUrl(q.calls[CHOOSE i \in ThumbnailPuts(q) : TRUE].arg))
  /\ \A id \in DOMAIN media :
       media[id].thumbnailUrl # None =>
         /\ media[id].mediaType = "image"
         /\ KeyOfUrl(media[id].thumbnailUrl[1]) \in blobs

\* an image upload has succeeded although its thumbnail could not be stored
C11_Witness ==
  \E r \in Reqs :
    /\ ImageStored(r)
    /\ Len(req[r].calls) = 3
    /\ req[r].calls[2].result = "unavailable"
    /\ req[r].status = 201
    /\ req[r].body[1].thumbnailUrl = None

\* the issued token itself has been presented
PresentedIssued == presented # None /\ presented[1].token = issued[1].token

\* the expiration instant of a token: its issue time plus the ttl given, or
\* plus the default ttl when none is given
ExpirationInstant(grant) ==
  grant.at + (IF grant.expiration_offset = None THEN AccessTokenExpireMinutes
              ELSE grant.expiration_offset[1])

\* C12: a correctly signed token validates at every instant before its issue
\* time plus ttl, and fails with the invalid-token error at every instant after
C12_ValidUntilExpiration ==
  PresentedIssued =>
    LET p == presented[1]
        expiration == ExpirationInstant(issued[1])
    IN  /\ p.at < expiration => p.parsed.status = 0
        /\ p.at > expiration => p.parsed = Unauthorized

\* C12, for a ttl that is absent or not zero: the token validates up to its
\* expiration instant and fails after it
C12_ValidUntilExpirationNonZero ==
  (PresentedIssued /\ issued[1].expiration_offset # Some(0)) =>
    LET p == presented[1]
        expiration == ExpirationInstant(issued[1])
    IN  /\ p.at <= expiration => p.parsed.status = 0
        /\ p.at <= expiration => p.parsed.payload = Some(issued[1].token.claims)
        /\ p.at > expiration => p.parsed = Unauthorized

\* the error of an outcome of authenticate, as a caller sees it
ErrorOf(outcome) == [status |-> outcome.status, detail |-> outcome.detail]

\* a presented credential is signed with the configured key and not expired
ValidlySigned(p) ==
  /\ p.token.key = SecretKey
  /\ ~("exp" \in DOMAIN p.token.claims /\ p.token.claims.exp < p.at)

\* C13: authenticate fails with InvalidToken for a credential that is signed
\* with another key, malformed or expired, with the distinct error
\* MissingSubject for a valid token without a subject, and returns the subject
\* of a valid token that has one
C13_AuthenticateErrors ==
  presented # None =>
    LET p == presented[1]
    IN  IF ~ValidlySigned(p)
        THEN /\ p.outcome.user_id = None
             /\ ErrorOf(p.outcome) = ErrorOf(Unauthorized)
        ELSE IF "sub" \notin DOMAIN p.token.claims
        THEN /\ p.outcome.user_id = None
             /\ p.outcome.status = 401
             /\ ErrorOf(p.outcome) # ErrorOf(Unauthorized)
        ELSE /\ p.outcome.status = 0
             /\ p.outcome.user_id = Some(p.token.claims.sub)

\* C13, without the distinction of the two errors: every credential that is
\* not a valid token with a subject is answered 401, and a valid token with
\* a subject yields that subject
C13_AuthenticateOutcome ==
  presented # None =>
    LET p == presented[1]
    IN  IF ValidlySigned(p) /\ "sub" \in DOMAIN p.token.claims
        THEN /\ p.outcome.status = 0
             /\ p.outcome.user_id = Some(p.token.claims.sub)
        ELSE /\ p.outcome.user_id = None
             /\ p.outcome.status = 401

\* a register or login request that has been answered with a token
Granted(r) ==
  /\ areq[r].pc = "done"
  /\ areq[r].op \in {"register", "login"}
  /\ areq[r].status = 200

\* C14: login succeeds only for an existing account whose stored digest is
\* that of the given password, and authenticate on the token returned by
\* register or login yields the id of exactly that account
C14_TokenNamesAccount ==
  \A r \in Reqs :
    Granted(r) =>
      LET q == areq[r]
      IN  \E u \in users :
            /\ u.email = q.email
            /\ \E salt \in Salts : u.hashed_password = ComputeDigest(q.password, salt)
            /\ q.body[1].user.id = u.id
            /\ ExtractAuthenticatedId(q.body[1].token, clock).status = 0
            /\ ExtractAuthenticatedId(q.body[1].token, clock).user_id = Some(u.id)
            /\ \A v \in users : v.id = u.id => v = u

\* a login has succeeded while another account exists
C14_Witness ==
  \E r \in Reqs :
    /\ Granted(r) /\ areq[r].op = "login"
    /\ \E v \in users : v.email # areq[r].email

\* C16: the response of register and of login holds the token and the id,
\* username, email and creation timestamp of the account and nothing else,
\* a response without them holds nothing, and no stored digest is a password
C16_DigestNeverReturned ==
  /\ \A r \in Reqs :
       (areq[r].pc = "done" /\ areq[r].body # None) =>
         LET body == areq[r].body[1]
         IN  /\ DOMAIN body = {"token", "user"}
             /\ DOMAIN body.user = {"id", "username", "email", "createdAt"}
             /\ DOMAIN body.token.claims = {"sub", "email", "exp"}
             /\ \E u \in users :
                  /\ body.user = [id |-> u.id, username |-> u.username,
                                  email |-> u.email, createdAt |-> u.created_at]
                  /\ body.token.claims.sub = u.id
                  /\ body.token.claims.email = u.email
  /\ \A r \in Reqs :
       (areq[r].pc = "done" /\ areq[r].status # 200) => areq[r].body = None
  /\ \A u \in users : u.hashed_password \notin Passwords

\* a login has been answered with the public view of its account
C16_Witness ==
  \E r \in Reqs :
    /\ Granted(r) /\ areq[r].op = "login"
    /\ \E u \in users : u.id = areq[r].body[1].user.id /\ u.email = areq[r].body[1].user.email

\* a finished login whose lookup was answered and that was not entitled to a token
LoginRefused(q, accounts) ==
  /\ q.pc = "done" /\ q.op = "login"
  /\ q.calls[1].result = "ok"
  /\ ~\E u \in accounts :
        /\ u.email = q.email
        /\ \E salt \in Salts : u.hashed_password = ComputeDigest(q.password, salt)

\* C20: a login with an unknown email and a login with a known email and a
\* wrong password get the same answer, 401 with one and the same detail and
\* no token, and the step of a refused login leaves the account store as it is
C20_FailedLoginRevealsNothing ==
  [][\A r \in Reqs :
       (areq[r].pc # "done" /\ LoginRefused(areq'[r], users)) =>
         /\ areq'[r].status = 401
         /\ areq'[r].detail = "Invalid email or password"
         /\ areq'[r].body = None
         /\ users' = users
         /\ nextUid' = nextUid]_vars

\* a login with the email of an account and another password has been refused
C20_Witness ==
  \E r \in Reqs :
    /\ LoginRefused(areq[r], users)
    /\ \E u \in users : u.email = areq[r].email
    /\ areq[r].status = 401

\* a finished upload whose record the document store refused
MetadataRefused(r) ==
  /\ req[r].pc = "done" /\ req[r].op = "upload"
  /\ Len(req[r].calls) >= 2
  /\ req[r].calls[Len(req[r].calls)].fn = "db.create_media"
  /\ req[r].calls[Len(req[r].calls)].result = "unavailable"

\* C17: an upload whose metadata write fails after its primary object was
\* written ends with an internal error; the primary object and the thumbnail
\* object, if written, stay in the blob store, no record refers to them, and
\* the upload has issued no deletion
C17_OrphanedObjectStays ==
  \A r \in Reqs :
    MetadataRefused(r) =>
      LET q == req[r]
          written == {q.calls[i].arg : i \in {j \in 1..Len(q.calls) :
                         q.calls[j].fn = "blob.upload_file" /\ q.calls[j].result = "ok"}}
      IN  /\ q.status = 500
          /\ q.body = None
          /\ q.calls[1].arg \in written
          /\ written \subseteq blobs
          /\ \A id \in DOMAIN media :
               /\ media[id].fileName \notin written
               /\ media[id].thumbnailUrl # None =>
                    KeyOfUrl(media[id].thumbnailUrl[1]) \notin written
          /\ CallsTo(q, "blob.delete_file") = {}

\* the record of an image with a stored thumbnail has been refused
C17_Witness ==
  \E r \in Reqs :
    /\ MetadataRefused(r)
    /\ Len(req[r].calls) = 3
    /\ req[r].calls[2].result = "ok"
    /\ req[r].calls[2].arg \in blobs

\* no delete request for an asset is under way
NoDeleteOf(id) ==
  \A r \in Reqs : ~(req[r].op = "delete" /\ req[r].media_id = id /\ req[r].pc # "idle")

\* C18: every record refers to a primary object that is present in the blob
\* store, at the latest once no delete of the asset is under way
C18_RecordsHaveObjects ==
  \A id \in DOMAIN media : NoDeleteOf(id) => media[id].fileName \in blobs

\* C18, for uploads alone: a record is written only after its primary object
C18_UploadWritesObjectFirst ==
  [][\A id \in DOMAIN media' \ DOMAIN media : media'[id].fileName \in blobs]_vars

\* the step in which an update finds that its record is gone
UpdateFindsNone(r) ==
  /\ req[r].pc = "upd_write"
  /\ req'[r].pc = "done"
  /\ req[r].media_id \notin DOMAIN media
  /\ req'[r].calls[2].result # "unavailable"

\* C19: a deleted asset stays absent: a record appears only under an id that
\* was never used, and the write of an update whose record has been deleted
\* in the meantime fails with NotFound and writes nothing
C19_DeletedStaysAbsent ==
  [][/\ \A id \in DOMAIN media : id < nextId
     /\ \A id \in DOMAIN media' \ DOMAIN media : id >= nextId
     /\ \A r \in Reqs :
          UpdateFindsNone(r) =>
            /\ req'[r].status = 404
            /\ req'[r].body = None
            /\ media' = media]_vars

\* an update that passed its ownership check has found its record deleted
C19_Witness ==
  \E r \in Reqs :
    /\ req[r].pc = "done" /\ req[r].op = "update"
    /\ Len(req[r].calls) = 2
    /\ req[r].calls[1].result = "ok"
    /\ req[r].calls[2].result = "ValueError"
    /\ req[r].status = 404
    /\ req[r].media_id \notin DOMAIN media

\* the credentials of a request are a token that is signed with the
\* configured key, has not expired and names a subject
CarriesValidToken(q) ==
  LET token == q.credentials[1]
  IN  /\ token.key = SecretKey
      /\ token.claims.exp >= clock
      /\ "sub" \in DOMAIN token.claims

\* a call to a store is scoped to an account wherever it names one
ScopedTo(call, account) ==
  /\ call.fn \in {"db.search_media", "db.get_user_media"} => call.arg = account
  /\ call.fn = "blob.upload_file" => call.arg[1] = account

\* C15: a request of any of the six asset operations that carries no valid
\* token is answered 401 without a call to either store, and a request that
\* carries one acts under the subject of its token: the subject is the
\* user_id of its ownership checks, of its store calls and of its record
C15_IdentityGatesEveryOperation ==
  \A r \in Reqs :
    req[r].pc # "idle" =>
      LET q == req[r]
      IN  /\ q.op \in {"upload", "search", "list", "get", "update", "delete"}
          /\ IF ~CarriesValidToken(q)
             THEN /\ q.pc = "done"
                  /\ q.status = 401
                  /\ q.calls = <<>>
                  /\ q.body = None
             ELSE /\ q.user_id = q.credentials[1].claims.sub
                  /\ \A i \in 1..Len(q.calls) : ScopedTo(q.calls[i], q.user_id)
                  /\ (q.op = "upload" /\ q.pc = "done" /\ q.status = 201) =>
                       q.body[1].userId = q.credentials[1].claims.sub
                  /\ (q.op \in {"search", "list"} /\ q.pc = "done" /\ q.status = 200) =>
                       \A i \in 1..Len(q.body[1].items) :
                         q.body[1].items[i].userId = q.credentials[1].claims.sub

\* a delete that carries a token signed with another key has been refused
C15_Witness ==
  \E r \in Reqs :
    /\ req[r].pc = "done" /\ req[r].op = "delete"
    /\ req[r].credentials[1].key # SecretKey
    /\ req[r].credentials[1].claims.sub = "A"
    /\ req[r].status = 401
    /\ \E id \in DOMAIN media : media[id].userId = "A"

====
